---- MODULE Spec2Model ----
(***************************************************************************)
(* Model of AgentsAndFunctions/function_to_schema.py:                      *)
(*   function_to_schema(func)                      (permissive converter)  *)
(*   is_function_schema_compatible(func, and_parse, verbose) (strict gate) *)
(*                                                                         *)
(* A Python callable is represented by the facts the two functions read    *)
(* from it: whether it is callable, what inspect.signature does with it,   *)
(* what reading and formatting its __name__ does, its parameters (name,    *)
(* annotation, default, kind), its return annotation, its docstring, and   *)
(* what inspect.getsource does with it.  An annotation or default is an    *)
(* object, represented by the answers it gives to the operations the code  *)
(* applies to it: isinstance, issubclass, the dict lookup (hash, then ==   *)
(* with the key of the same hash), the truth value of == and of != against *)
(* inspect._empty, and its formatting.  An answer is a value or the        *)
(* exception raised; an exception is represented by its class name, the    *)
(* classes of the except clauses it is an instance of, and what str() of   *)
(* it does.  Strings are sequences of characters; a reason message is one  *)
(* token standing for the formatted f-string.                              *)
(***************************************************************************)
EXTENDS Integers, Sequences, FiniteSets, TLC

VARIABLES func, and_parse, verbose, pc, result

vars == <<func, and_parse, verbose, pc, result>>

(***************************************************************************)
(* Bounds                                                                  *)
(***************************************************************************)
MaxParams == 2

\* parameter names by position (deliberately not in alphabetical order)
ParamNames == <<"x", "a", "k", "b">>

(***************************************************************************)
(* Objects                                                                 *)
(***************************************************************************)
\* the keys of type_map: str, int, float, bool, list, dict, type(None)
TypeMapKeys == {"str", "int", "float", "bool", "list", "dict", "NoneType"}

type_map ==
  [t \in TypeMapKeys |->
     CASE t = "str"      -> "string"
       [] t = "int"      -> "integer"
       [] t = "float"    -> "number"
       [] t = "bool"     -> "boolean"
       [] t = "list"     -> "array"
       [] t = "dict"     -> "object"
       [] t = "NoneType" -> "null"]

(***************************************************************************)
(* Exceptions and answers                                                  *)
(***************************************************************************)
\* An exception:
\*   name     the name of its class
\*   kinds    those of the classes named in the except clauses of the two
\*            functions (Exception, ValueError, KeyError) it is an instance of
\*   message  what str() of it returns, as tokens
\*   str      <<>> when str() of it returns, else the exception str() raises
ExceptionOf(name, kinds, message, str) ==
  [name |-> name, kinds |-> kinds, message |-> message, str |-> str]

\* no exception
NoException == ExceptionOf("", {}, <<>>, <<>>)

\* an exception raised outside the two functions: one token is its text
Raised(name, kinds) == ExceptionOf(name, kinds, <<name>>, <<>>)

\* an exception that is an Exception and no ValueError or KeyError
Error(name) == Raised(name, {"Exception"})

TypeError == Error("TypeError")
RuntimeError == Error("RuntimeError")
AttributeError == Error("AttributeError")
ValueError == Raised("ValueError", {"Exception", "ValueError"})
\* a subclass of ValueError
UnicodeError == Raised("UnicodeError", {"Exception", "ValueError"})
KeyError == Raised("KeyError", {"Exception", "KeyError"})
\* exceptions that are no Exception
KeyboardInterrupt == Raised("KeyboardInterrupt", {})
BaseExceptionGroup == Raised("BaseExceptionGroup", {})
\* asyncio.CancelledError
CancelledError == Raised("CancelledError", {})
\* exceptions whose __str__ raises
Unprintable(name, kinds, e) == ExceptionOf(name, kinds, <<>>, <<e>>)
UnprintableError == Unprintable("UnprintableError", {"Exception"}, RuntimeError)
UnprintableValueError ==
  Unprintable("UnprintableValueError", {"Exception", "ValueError"}, RuntimeError)
UnprintableKeyError ==
  Unprintable("UnprintableKeyError", {"Exception", "KeyError"}, KeyboardInterrupt)

\* except <kind> catches the exception
Catches(kind, e) == kind \in e.kinds

\* what an operation on an object does: it gives a value or raises
Gives(value) == [value |-> value, error |-> NoException]
Throws(e) == [value |-> "", error |-> e]

IsException(answer) == answer.error.name # ""

Yes == Gives("True")
No == Gives("False")
Ok == Gives("ok")
Absent == Gives("absent")

\* An object that stands as annotation or default:
\*   name      what formatting it into an f-string gives
\*   is_type   isinstance(object, type): Yes, No, or the exception that
\*             reading its __class__ raises
\*   rejected  issubclass(object, (tuple, set, complex, datetime.datetime)):
\*             Yes, No or the exception raised
\*   lookup    what the dict finds for it: the key of type_map with the same
\*             hash that is the object or equals it, Absent when there is
\*             none, or the exception raised by hash() or by == with the key
\*             of the same hash or by the truth value of that ==
\*   eq_empty  the truth value of object == inspect._empty
\*   ne_empty  the truth value of object != inspect._empty
\*   format    Ok, or the exception __format__ / __str__ / __repr__ raises
Object(name, is_type, rejected, lookup, eq_empty, ne_empty, format) ==
  [name |-> name, is_type |-> is_type, rejected |-> rejected, lookup |-> lookup,
   eq_empty |-> eq_empty, ne_empty |-> ne_empty, format |-> format]

\* an ordinary class: hashed and compared by identity
Class(name, lookup, rejected) == Object(name, Yes, rejected, lookup, No, Yes, Ok)

\* an ordinary object that is not a class, by what its hash and == do
Instance(name, lookup, eq_empty, ne_empty) ==
  Object(name, No, Throws(TypeError), lookup, eq_empty, ne_empty, Ok)

\* inspect._empty: the marker of an absent annotation or default (a class)
Empty == Object("_empty", Yes, No, Absent, Yes, No, Ok)

\* the classes that are the keys of type_map
MappedClass(key) == Class(key, Gives(key), No)
TypeMapClasses == { MappedClass(key) : key \in TypeMapKeys }
StrClass == MappedClass("str")
IntClass == MappedClass("int")

\* (tuple, set, complex, datetime.datetime)
RejectList == { Class(name, Absent, Yes) : name \in {"tuple", "set", "complex", "datetime"} }
Tuple == Class("tuple", Absent, Yes)
Datetime == Class("datetime", Absent, Yes)

\* classes that are neither keys of type_map nor subclasses of the reject list
Bytes == Class("bytes", Absent, No)
OtherTypes == {Bytes}

\* a typing generic
ListInt == Instance("List[int]", Absent, No, Yes)
\* the literal None that `-> None` / `x: None` leaves in the signature
NoneLiteral == Instance("None", Absent, No, Yes)
\* a list literal ([int]): unhashable
ListLiteral == Instance("[int]", Throws(TypeError), No, Yes)
\* objects whose __eq__ answers True to everything (unittest.mock.ANY), with
\* a __hash__ and without one
EqAll == Instance("EqAll", Absent, Yes, No)
EqAllNoHash == Instance("EqAllNoHash", Throws(TypeError), Yes, No)
\* objects whose == and != give an object without a truth value, as a numpy
\* array does (unhashable as numpy arrays are) and with a __hash__
Array == Instance("Array", Throws(TypeError), Throws(ValueError), Throws(ValueError))
ArrayH == Instance("ArrayH", Absent, Throws(ValueError), Throws(ValueError))
\* an object like pandas.NA: the truth value of its == and != raises TypeError
NA == Instance("NA", Absent, Throws(TypeError), Throws(TypeError))
\* an object with the hash of int whose == answers True to int only
HashInt == Instance("HashInt", Gives("int"), No, Yes)
\* an object with the hash of int whose == has no truth value
HashIntNoTruth ==
  Instance("HashIntNoTruth", Throws(ValueError), Throws(ValueError), Throws(ValueError))
\* an object whose __ne__ always answers False (its == is by identity)
NeFalse == Instance("NeFalse", Absent, No, No)
\* an object whose != has no truth value (its == is by identity)
NeNoTruth == Instance("NeNoTruth", Absent, No, Throws(ValueError))
\* an object whose == has no truth value and whose != answers True
EqNoTruthOnly == Instance("EqNoTruthOnly", Absent, Throws(ValueError), Yes)
\* an object whose __repr__ raises
UnprintableObject ==
  Object("Unprintable", No, Throws(TypeError), Absent, No, Yes, Throws(RuntimeError))
\* an object whose __class__ claims to be type: issubclass rejects it
FalseClass == Object("FalseClass", Yes, Throws(TypeError), Absent, No, Yes, Ok)
\* an object whose __class__ is a property that raises
BadClass ==
  Object("BadClass", Throws(RuntimeError), Throws(TypeError), Absent, No, Yes, Ok)
\* a class whose metaclass makes it equal to anything and unhashable
EqAllClass == Object("EqAllClass", Yes, No, Throws(TypeError), Yes, No, Ok)
\* objects whose __hash__ raises KeyError or a subclass of it, the last one
\* with a __format__ that raises as well
KeyErrHash == Instance("KeyErrHash", Throws(KeyError), No, Yes)
SubKeyErrHash ==
  Instance("SubKeyErrHash", Throws(Raised("MyKeyError", {"Exception", "KeyError"})), No, Yes)
KeyErrUnprintable ==
  Object("KeyErrUnprintable", No, Throws(TypeError), Throws(KeyError), No, Yes,
         Throws(RuntimeError))

NonTypes ==
  { ListInt, NoneLiteral, ListLiteral, EqAll, EqAllNoHash, Array, ArrayH, NA,
    HashInt, HashIntNoTruth, NeFalse, NeNoTruth, EqNoTruthOnly, UnprintableObject,
    KeyErrHash, SubKeyErrHash, KeyErrUnprintable }

Annotations ==
  {Empty} \cup TypeMapClasses \cup RejectList \cup OtherTypes \cup NonTypes
     \cup {FalseClass, BadClass, EqAllClass}

\* every combination of answers an object can give
Answers == {Yes, No, Throws(ValueError), Throws(TypeError)}
AnyObjects ==
  { Object("object", t, r, l, e, n, f) :
       t \in {Yes, No, Throws(RuntimeError)},
       r \in Answers,
       l \in {Absent, Gives("int"), Throws(TypeError), Throws(ValueError),
              Throws(KeyError), Throws(UnprintableKeyError)},
       e \in Answers, n \in Answers,
       f \in {Ok, Throws(RuntimeError), Throws(KeyboardInterrupt)} }

\* default values: an ordinary value, unittest.mock.ANY (== is always True),
\* an array-like value (== gives an object without a truth value), a value
\* like pandas.NA, and values whose __eq__ raises an exception that is no
\* Exception or one whose __str__ raises
Default(name, eq_empty) == Instance(name, Absent, eq_empty, Yes)
Defaults ==
  { Empty, Default("value", No), Default("ANY", Yes),
    Default("array", Throws(ValueError)), Default("NA", Throws(TypeError)),
    Default("interrupting", Throws(KeyboardInterrupt)),
    Default("grouping", Throws(BaseExceptionGroup)),
    Default("cancelling", Throws(CancelledError)),
    Default("unprintable", Throws(UnprintableError)) }

\* isinstance(annotation, type)
IsInstanceOfType(annotation) == annotation.is_type

\* issubclass(annotation, (tuple, set, complex, datetime.datetime))
IsSubclassOfRejected(annotation) == annotation.rejected

\* annotation == inspect._empty
EqualsEmpty(annotation) == annotation.eq_empty

\* annotation != inspect._empty
NotEqualsEmpty(annotation) == annotation.ne_empty

(***************************************************************************)
(* Strings                                                                 *)
(***************************************************************************)
\* the characters str.isspace() accepts, one token per character
Whitespace ==
  {" ", "\n", "\t", "\r", "\f",
   "<VT>", "<FF>", "<CR>", "<FS>", "<GS>", "<RS>", "<US>", "<NEL>", "<NBSP>",
   "<U+1680>", "<U+2000>", "<U+2001>", "<U+2002>", "<EMSP>", "<U+2004>",
   "<U+2005>", "<U+2006>", "<U+2007>", "<U+2008>", "<U+2009>", "<U+200A>",
   "<U+2028>", "<U+2029>", "<U+202F>", "<U+205F>", "<U+3000>",
   "<U+0085>", "<U+00A0>", "<U+2003>", "<IDSP>"}

\* the bytes bytes.strip() removes: ASCII whitespace only
BytesWhitespace == {" ", "\n", "\t", "\r", "\f", "<VT>", "<FF>", "<CR>"}

RECURSIVE LStripOf(_, _)
LStripOf(s, chars) ==
  IF s # <<>> /\ Head(s) \in chars THEN LStripOf(Tail(s), chars) ELSE s

RECURSIVE RStripOf(_, _)
RStripOf(s, chars) ==
  IF s # <<>> /\ s[Len(s)] \in chars
  THEN RStripOf(SubSeq(s, 1, Len(s) - 1), chars)
  ELSE s

\* str.strip()
Strip(s) == RStripOf(LStripOf(s, Whitespace), Whitespace)

\* bytes.strip()
BytesStrip(s) == RStripOf(LStripOf(s, BytesWhitespace), BytesWhitespace)

\* needle in haystack (substring test on character sequences)
Contains(haystack, needle) ==
  \E i \in 0..(Len(haystack) - Len(needle)) :
     SubSeq(haystack, i + 1, i + Len(needle)) = needle

\* func.__doc__, by what `(func.__doc__ or "").strip()` asks of it:
\*   truth  its truth value: Yes, No or the exception raised
\*   strip  "str" or "bytes" when it is one (strip() strips it), "object"
\*          when its strip() returns something else, or the exception that
\*          reading or calling strip raises (AttributeError when it has none)
\*   text   its characters when it is a str or bytes
Doc(truth, strip, text) == [truth |-> truth, strip |-> strip, text |-> text]

\* func.__doc__ is None
NoDoc == Doc(No, Throws(AttributeError), <<>>)

\* a str docstring: truthy unless empty
StrDoc(text) == Doc(IF text = <<>> THEN No ELSE Yes, Gives("str"), text)

\* func.__doc__ set to a bytes object
BytesDoc(text) == Doc(IF text = <<>> THEN No ELSE Yes, Gives("bytes"), text)

\* func.__doc__ is a truthy object without strip (5, a getset_descriptor)
NonStrDoc == Doc(Yes, Throws(AttributeError), <<>>)

\* a value computed by a step of function_to_schema, or the exception raised
Value(v) == [error |-> NoException, value |-> v]
Failed(e, v) == [error |-> e, value |-> v]

\* the first token of a description that is a bytes object / another object
BytesMark == "<bytes>"
ObjectMark == "<object>"

\* (func.__doc__ or "").strip()
Description(doc) ==
  IF IsException(doc.truth) THEN Failed(doc.truth.error, <<>>)
  ELSE IF doc.truth = No THEN Value(<<>>)
  ELSE IF IsException(doc.strip) THEN Failed(doc.strip.error, <<>>)
  ELSE IF doc.strip.value = "str" THEN Value(Strip(doc.text))
  ELSE IF doc.strip.value = "bytes" THEN Value(<<BytesMark>> \o BytesStrip(doc.text))
  ELSE Value(<<ObjectMark>>)

NoSchema == [type |-> "none"]

Raise(e)  == [kind |-> "raise", error |-> e, schema |-> NoSchema]
Return(s) == [kind |-> "return", error |-> NoException, schema |-> s]

(***************************************************************************)
(* function_to_schema                                                      *)
(***************************************************************************)
\* type_map.get(param.annotation, "string"): the dict hashes the annotation,
\* then compares it with the key of the same hash
TypeMapGet(annotation) ==
  IF IsException(annotation.lookup) THEN Failed(annotation.lookup.error, "")
  ELSE IF annotation.lookup = Absent THEN Value("string")
  ELSE Value(type_map[annotation.lookup.value])

\* repr() of a str, which is what str() of a KeyError made of one gives
Repr(text) == <<"repr(">> \o text \o <<")">>

\* the KeyError of lines 34-36
UnknownAnnotation(param, e) ==
  ExceptionOf("KeyError", {"Exception", "KeyError"},
              Repr(<<"Unknown type annotation", param.annotation.name,
                     "for parameter", param.name, ":">> \o e.message),
              <<>>)

\* lines 31-36: the lookup, and the handler of the KeyError it may raise.
\* The f-string formats the annotation, then takes str(e); either may raise
ParamType(param) ==
  LET found == TypeMapGet(param.annotation)
  IN IF found.error = NoException THEN found
     ELSE IF ~Catches("KeyError", found.error) THEN found
     ELSE IF IsException(param.annotation.format)
     THEN Failed(param.annotation.format.error, "")
     ELSE IF found.error.str # <<>> THEN Failed(found.error.str[1], "")
     ELSE Failed(UnknownAnnotation(param, found.error), "")

\* parameters[key] = value on an insertion-ordered dict
RECURSIVE DictSet(_, _, _)
DictSet(d, key, value) ==
  IF d = <<>> THEN <<[name |-> key, schema |-> value]>>
  ELSE IF Head(d).name = key
       THEN <<[name |-> key, schema |-> value]>> \o Tail(d)
       ELSE <<Head(d)>> \o DictSet(Tail(d), key, value)

\* the loop of lines 29-37 over the first n parameters: the first exception
\* that leaves the body ends it
RECURSIVE BuildProperties(_, _)
BuildProperties(params, n) ==
  IF n = 0 THEN Value(<<>>)
  ELSE LET before == BuildProperties(params, n - 1)
           param_type == ParamType(params[n])
       IN IF before.error # NoException THEN before
          ELSE IF param_type.error # NoException THEN Failed(param_type.error, <<>>)
          ELSE Value(DictSet(before.value, params[n].name, [type |-> param_type.value]))

\* the truth value of param.default == inspect._empty
IsRequired(param) ==
  IF IsException(EqualsEmpty(param.default))
  THEN Failed(EqualsEmpty(param.default).error, FALSE)
  ELSE Value(EqualsEmpty(param.default) = Yes)

\* [param.name for param in ... if param.default == inspect._empty], first n
\* parameters: the first truth value that raises ends it
RECURSIVE BuildRequired(_, _)
BuildRequired(params, n) ==
  IF n = 0 THEN Value(<<>>)
  ELSE LET before == BuildRequired(params, n - 1)
           required == IsRequired(params[n])
       IN IF before.error # NoException THEN before
          ELSE IF required.error # NoException THEN Failed(required.error, <<>>)
          ELSE IF required.value THEN Value(Append(before.value, params[n].name))
          ELSE before

\* the ValueError of lines 25-27
NoSignature(f, e) ==
  ExceptionOf("ValueError", {"Exception", "ValueError"},
              <<"Failed to get signature for function", f.name, ":">> \o e.message,
              <<>>)

\* lines 22-27: what inspect.signature raises leaves the function as it is,
\* except a ValueError: the handler's f-string reads func.__name__, formats
\* it, then takes str(e), and each may raise
SignatureFailure(f) ==
  IF ~Catches("ValueError", f.signature_error) THEN Raise(f.signature_error)
  ELSE IF f.name_error # NoException THEN Raise(f.name_error)
  ELSE IF IsException(f.name_format) THEN Raise(f.name_format.error)
  ELSE IF f.signature_error.str # <<>> THEN Raise(f.signature_error.str[1])
  ELSE Raise(NoSignature(f, f.signature_error))

function_to_schema(f) ==
  LET properties  == BuildProperties(f.params, Len(f.params))
      required    == BuildRequired(f.params, Len(f.params))
      description == Description(f.doc)
  IN IF f.signature_error # NoException THEN SignatureFailure(f)
     ELSE IF properties.error # NoException THEN Raise(properties.error)
     ELSE IF required.error # NoException THEN Raise(required.error)
     ELSE IF f.name_error # NoException THEN Raise(f.name_error)   \* func.__name__ on line 48
     ELSE IF description.error # NoException THEN Raise(description.error)  \* line 49
     ELSE Return(
       [type     |-> "function",
        function |-> [name        |-> f.name,
                      description |-> description.value,
                      parameters  |-> [type       |-> "object",
                                       properties |-> properties.value,
                                       required   |-> required.value]]])
(***************************************************************************)
(* is_function_schema_compatible                                           *)
(***************************************************************************)
\* one formatted message: param / annotation are the interpolated values,
\* detail the text of an interpolated exception
Message(trait, param, annotation, detail) ==
  [trait |-> trait, param |-> param, annotation |-> annotation, detail |-> detail]

Reason(trait, param, annotation) == Message(trait, param, annotation, <<>>)

NotCallableMsg  == Reason("Provided object is not a function.", "", "")

\* the values is_function_schema_compatible produces
NoReasons == <<>>
PlainBool(b)      == [kind |-> "bool", value |-> b, text |-> NoReasons, schema |-> NoSchema, error |-> NoException]
BoolAndText(b, t) == [kind |-> "bool_str", value |-> b, text |-> t, schema |-> NoSchema, error |-> NoException]
BoolAndSchema(b, s) == [kind |-> "bool_dict", value |-> b, text |-> NoReasons, schema |-> s, error |-> NoException]
Raises(e)         == [kind |-> "raise", value |-> FALSE, text |-> NoReasons, schema |-> NoSchema, error |-> e]

\* the f-string of line 99
NoSignatureMsg(f) == Reason("Could not retrieve signature for", f.name, "")
MissingAnnotationMsg(param) ==
  Reason("is missing a type annotation.", param.name, "")
UnrecognizedMsg(param) ==
  Reason("has an unrecognized type annotation:", param.name, param.annotation.name)
UnsupportedMsg(param) ==
  Reason("has an unsupported type:", param.name, param.annotation.name)
VariadicMsg == Reason("Function uses *args or **kwargs, which are not supported.", "", "")
InputCallMsg ==
  Reason("Function contains an input() call, which requires user interaction.", "", "")
ReturnTypeMsg(annotation) == Reason("Return type is unsupported.", "", annotation.name)
\* the f-string of line 137, e being an exception whose str() returns
ConvertFailedMsg(e) ==
  Message("Function is structurally valid but failed to convert:", "", "", e.message)

\* the "; " that str.join puts between two reasons
Separator == Reason("; ", "", "")

\* "; ".join(disqualifiers)
RECURSIVE Join(_)
Join(reasons) ==
  IF reasons = <<>> THEN <<>>
  ELSE IF Len(reasons) = 1 THEN reasons
  ELSE <<Head(reasons), Separator>> \o Join(Tail(reasons))

\* what a step appends to disqualifiers, or the exception it raises
Appends(reasons) == [error |-> NoException, reasons |-> reasons]
StepRaises(e) == [error |-> e, reasons |-> <<>>]

\* one step after another: an exception ends the function where it is raised
Then(first, second) ==
  IF first.error # NoException THEN first
  ELSE IF second.error # NoException THEN second
  ELSE Appends(first.reasons \o second.reasons)

\* disqualifiers.append(f"...{annotation}..."): formatting comes first
AppendFormatted(annotation, reason) ==
  IF IsException(annotation.format) THEN StepRaises(annotation.format.error)
  ELSE Appends(<<reason>>)

\* the loop body without the isinstance branch: annotations that are not
\* classes pass unnoticed
ParamDisqualifiersClassesOnly(param) ==
  IF IsException(EqualsEmpty(param.annotation))
  THEN StepRaises(EqualsEmpty(param.annotation).error)
  ELSE IF EqualsEmpty(param.annotation) = Yes
  THEN Appends(<<MissingAnnotationMsg(param)>>)
  ELSE IF IsException(param.annotation.lookup)
  THEN StepRaises(param.annotation.lookup.error)
  ELSE IF param.annotation.lookup # Absent THEN Appends(<<>>)
  ELSE IF IsException(IsInstanceOfType(param.annotation))
  THEN StepRaises(IsInstanceOfType(param.annotation).error)
  ELSE IF IsInstanceOfType(param.annotation) = No
  THEN Appends(<<>>)
  ELSE IF IsException(IsSubclassOfRejected(param.annotation))
  THEN StepRaises(IsSubclassOfRejected(param.annotation).error)
  ELSE IF IsSubclassOfRejected(param.annotation) = Yes
  THEN AppendFormatted(param.annotation, UnsupportedMsg(param))
  ELSE Appends(<<>>)

\* Step 3, body of the loop (lines 104-110): what one parameter appends to
\* disqualifiers.  The `if` of line 104 takes the truth value of ==; the
\* `not in type_map` of line 106 is the dict lookup; isinstance reads the
\* annotation's __class__
ParamDisqualifiers(param) ==
  IF IsException(EqualsEmpty(param.annotation))
  THEN StepRaises(EqualsEmpty(param.annotation).error)
  ELSE IF EqualsEmpty(param.annotation) = Yes
  THEN Appends(<<MissingAnnotationMsg(param)>>)
  ELSE IF IsException(param.annotation.lookup)
  THEN StepRaises(param.annotation.lookup.error)
  ELSE IF param.annotation.lookup # Absent THEN Appends(<<>>)
  ELSE IF IsException(IsInstanceOfType(param.annotation))
  THEN StepRaises(IsInstanceOfType(param.annotation).error)
  ELSE IF IsInstanceOfType(param.annotation) = No
  THEN AppendFormatted(param.annotation, UnrecognizedMsg(param))
  ELSE IF IsException(IsSubclassOfRejected(param.annotation))
  THEN StepRaises(IsSubclassOfRejected(param.annotation).error)
  ELSE IF IsSubclassOfRejected(param.annotation) = Yes
  THEN AppendFormatted(param.annotation, UnsupportedMsg(param))
  ELSE Appends(<<>>)

\* Step 3: the loop over signature.parameters.values(), first n parameters
RECURSIVE CheckParameters(_, _)
CheckParameters(params, n) ==
  IF n = 0 THEN Appends(<<>>)
  ELSE Then(CheckParameters(params, n - 1), ParamDisqualifiers(params[n]))

\* Step 4: any(param.kind in {VAR_POSITIONAL, VAR_KEYWORD} ...)
UsesVariadic(params) ==
  \E i \in 1..Len(params) : params[i].kind \in {"VAR_POSITIONAL", "VAR_KEYWORD"}

CheckVariadic(params) ==
  IF UsesVariadic(params) THEN Appends(<<VariadicMsg>>) ELSE Appends(<<>>)

\* what inspect.getsource(func) does: the text, or the exception raised
Source(text) == [error |-> NoException, text |-> text]
SourceFailure(e) == [error |-> e, text |-> <<>>]

\* no source text to find (a function made by exec): OSError
NoSource == SourceFailure(Error("OSError"))

\* inspect.getsource rejects the object (a builtin, a functools.partial, a
\* callable instance): TypeError
NotSourceObject == SourceFailure(TypeError)

\* the file changed after the def and no longer tokenizes: tokenize.TokenError
BrokenSource == SourceFailure(Error("TokenError"))

InputCall == <<"i", "n", "p", "u", "t", "(">>

\* Step 5: inspect.getsource(func), then "input(" in source_code
CheckInteractive(source_code) ==
  IF source_code.error # NoException THEN StepRaises(source_code.error)
  ELSE IF Contains(source_code.text, InputCall) THEN Appends(<<InputCallMsg>>)
  ELSE Appends(<<>>)

\* Step 6 (lines 122-126): `not in type_map` is the dict lookup; only when it
\* finds nothing does `and` take the truth value of !=
CheckReturnType(annotation) ==
  IF IsException(annotation.lookup) THEN StepRaises(annotation.lookup.error)
  ELSE IF annotation.lookup # Absent THEN Appends(<<>>)
  ELSE IF IsException(NotEqualsEmpty(annotation))
  THEN StepRaises(NotEqualsEmpty(annotation).error)
  ELSE IF NotEqualsEmpty(annotation) = No THEN Appends(<<>>)
  ELSE IF IsException(IsInstanceOfType(annotation))
  THEN StepRaises(IsInstanceOfType(annotation).error)
  ELSE IF IsInstanceOfType(annotation) = No
  THEN AppendFormatted(annotation, ReturnTypeMsg(annotation))
  ELSE IF IsException(IsSubclassOfRejected(annotation))
  THEN StepRaises(IsSubclassOfRejected(annotation).error)
  ELSE IF IsSubclassOfRejected(annotation) = Yes
  THEN AppendFormatted(annotation, ReturnTypeMsg(annotation))
  ELSE Appends(<<>>)

\* lines 136-137: what the handler of `except Exception as e` returns; when
\* verbose its f-string takes str(e), which may raise
ConversionFailure(e, vb) ==
  IF ~vb THEN PlainBool(FALSE)
  ELSE IF e.str # <<>> THEN Raises(e.str[1])
  ELSE BoolAndText(FALSE, <<ConvertFailedMsg(e)>>)

\* Step 7 with `is_compatible = bool(disqualifiers)` (the `not` dropped)
ReturnResultsNotDropped(f, disqualifiers, ap, vb) ==
  LET is_compatible == disqualifiers # <<>>
  IN IF is_compatible /\ ap
     THEN LET converted == function_to_schema(f)
          IN IF converted.kind = "return"
             THEN BoolAndSchema(TRUE, converted.schema)
             ELSE IF ~Catches("Exception", converted.error)
             THEN Raises(converted.error)
             ELSE ConversionFailure(converted.error, vb)
     ELSE IF vb
          THEN BoolAndText(is_compatible, Join(disqualifiers))
          ELSE PlainBool(is_compatible)

\* Step 7 with the verbose branch tested before the and_parse branch
ReturnResultsVerboseFirst(f, disqualifiers, ap, vb) ==
  LET is_compatible == disqualifiers = <<>>
  IN IF vb
     THEN BoolAndText(is_compatible, Join(disqualifiers))
     ELSE IF is_compatible /\ ap
          THEN LET converted == function_to_schema(f)
               IN IF converted.kind = "return"
                  THEN BoolAndSchema(TRUE, converted.schema)
                  ELSE IF ~Catches("Exception", converted.error)
                  THEN Raises(converted.error)
                  ELSE PlainBool(FALSE)
          ELSE PlainBool(is_compatible)

\* Step 7: lines 128-143; `except Exception` catches what function_to_schema
\* raises unless it is no Exception
ReturnResults(f, disqualifiers, ap, vb) ==
  LET is_compatible == disqualifiers = <<>>
  IN IF is_compatible /\ ap
     THEN LET converted == function_to_schema(f)
          IN IF converted.kind = "return"
             THEN BoolAndSchema(TRUE, converted.schema)
             ELSE IF ~Catches("Exception", converted.error)
             THEN Raises(converted.error)
             ELSE ConversionFailure(converted.error, vb)
     ELSE IF vb
          THEN BoolAndText(is_compatible, Join(disqualifiers))
          ELSE PlainBool(is_compatible)

\* steps 3, 4, 5 and 6 in their order: the list of disqualifiers, or the
\* first exception, which leaves the function uncaught
Disqualifiers(f) ==
  Then(Then(Then(CheckParameters(f.params, Len(f.params)),
                 CheckVariadic(f.params)),
            CheckInteractive(f.source)),
       CheckReturnType(f.return_annotation))

\* lines 98-99: what the handler of `except ValueError` returns; when verbose
\* its f-string reads func.__name__ and formats it, and each may raise
SignatureUnavailable(f, vb) ==
  IF ~vb THEN PlainBool(FALSE)
  ELSE IF f.name_error # NoException THEN Raises(f.name_error)
  ELSE IF IsException(f.name_format) THEN Raises(f.name_format.error)
  ELSE BoolAndText(FALSE, <<NoSignatureMsg(f)>>)

is_function_schema_compatible(f, ap, vb) ==
  IF ~f.callable
  THEN IF vb THEN BoolAndText(FALSE, <<NotCallableMsg>>) ELSE PlainBool(FALSE)
  ELSE IF f.signature_error # NoException
  THEN IF ~Catches("ValueError", f.signature_error)
       THEN Raises(f.signature_error)             \* line 98 catches ValueError only
       ELSE SignatureUnavailable(f, vb)
  ELSE LET disqualifiers == Disqualifiers(f)
       IN IF disqualifiers.error # NoException THEN Raises(disqualifiers.error)
          ELSE ReturnResults(f, disqualifiers.reasons, ap, vb)
(***************************************************************************)
(* Callables                                                               *)
(***************************************************************************)
Param(i, annotation, default, kind) ==
  [name |-> ParamNames[i], annotation |-> annotation, default |-> default, kind |-> kind]

\* one parameter at position i: *args / **kwargs never carry a default
ParamsAt(i, annots, defaults) ==
  { Param(i, an, d, "NORMAL") : an \in annots, d \in defaults }
    \cup { Param(i, an, Empty, k) : an \in annots, k \in {"VAR_POSITIONAL", "VAR_KEYWORD"} }

\* what a def statement allows: at most one *args, **kwargs only last
ValidKinds(params) ==
  /\ Cardinality({i \in 1..Len(params) : params[i].kind = "VAR_POSITIONAL"}) <= 1
  /\ \A i \in 1..Len(params) : params[i].kind = "VAR_KEYWORD" => i = Len(params)

\* parameters named by their position
Named(params) ==
  [i \in 1..Len(params) |-> [params[i] EXCEPT !.name = ParamNames[i]]]

\* the parameter lists of length n: the same choices at every position
ParamLists(n, annots, defaults) ==
  { ps \in [1..n -> ParamsAt(1, annots, defaults)] : ValidKinds(ps) }

\* a callable, by what the two functions read from it: signature_error and
\* name_error are NoException or the exception that inspect.signature(func)
\* and func.__name__ raise, name_format is Ok or the exception that
\* formatting func.__name__ into an f-string raises
Callable(signature_error, name_error, name_format, name, doc, params, ret, source) ==
  [callable |-> TRUE, signature_error |-> signature_error,
   name_error |-> name_error, name_format |-> name_format, name |-> name,
   doc |-> doc, params |-> params, return_annotation |-> ret, source |-> source]

\* a function made by def (or by exec, or a builtin with a text signature)
Function(doc, params, ret, source) ==
  Callable(NoException, NoException, Ok, "f", doc, params, ret, source)

\* a callable with a signature and no __name__: functools.partial(f, ...), an
\* instance of a class with __call__
Nameless(params, ret) ==
  Callable(NoException, AttributeError, Ok, "", NoDoc, params, ret, NotSourceObject)

\* a callable for which inspect.signature raises e, with a __name__ that is a
\* str
OpaqueWith(e, name, source) ==
  Callable(e, NoException, Ok, name, NoDoc, <<>>, Empty, source)

\* a callable whose signature inspect cannot find (a builtin type such as dict)
Opaque == OpaqueWith(ValueError, "dict", NoSource)

\* a callable for which inspect.signature raises a subclass of ValueError
OpaqueUnicodeError == OpaqueWith(UnicodeError, "g", NoSource)

\* a callable for which inspect.signature raises TypeError (unittest.mock.call,
\* a function whose __signature__ is not a Signature)
OpaqueTypeError == OpaqueWith(TypeError, "call", NotSourceObject)

\* callables whose __signature__ is a property that raises a ValueError
\* whose __str__ raises, and an exception that is no Exception
OpaqueUnprintable == OpaqueWith(UnprintableValueError, "h", NotSourceObject)
OpaqueInterrupted == OpaqueWith(KeyboardInterrupt, "k", NotSourceObject)

\* the same without __name__: functools.partial(dict), operator.attrgetter('a')
OpaqueNameless ==
  Callable(ValueError, AttributeError, Ok, "", NoDoc, <<>>, Empty, NotSourceObject)

\* a callable instance without signature whose __name__ is an object with a
\* __format__ that raises
OpaqueBadName ==
  Callable(ValueError, NoException, Throws(Error("OSError")), "badname", NoDoc, <<>>, Empty,
           NotSourceObject)

\* an object that is not callable at all: inspect.signature raises TypeError
NotCallable ==
  [callable |-> FALSE, signature_error |-> TypeError,
   name_error |-> AttributeError, name_format |-> Ok, name |-> "",
   doc |-> NoDoc, params |-> <<>>, return_annotation |-> Empty,
   source |-> NotSourceObject]

DocText == <<"<CR>", " ", "A", "d", "d", " ", "i", "t", ".", "\n", "<NBSP>">>
Docs ==
  { NoDoc, NonStrDoc, StrDoc(DocText), StrDoc(<<>>), StrDoc(<<" ", "<NBSP>">>),
    BytesDoc(DocText), BytesDoc(<<>>),
    Doc(Yes, Gives("object"), <<>>), Doc(Throws(ValueError), Throws(AttributeError), <<>>),
    Doc(Yes, Throws(RuntimeError), <<>>), Doc(Throws(UnprintableError), Gives("str"), <<>>) }

PlainSource == Source(<<"r", "e", "t", "u", "r", "n">>)
InputSource == Source(<<"x", "=", "i", "n", "p", "u", "t", "(", ")">>)
\* input (): a call of input that is not spelled "input("
SpacedCallSource == Source(<<"i", "n", "p", "u", "t", " ", "(", ")">>)
\* _input(input()): the text "input(" twice, once inside another name
TwiceSource ==
  Source(<<"_", "i", "n", "p", "u", "t", "(", "i", "n", "p", "u", "t", "(", ")", ")">>)
Sources ==
  { NoSource, NotSourceObject, BrokenSource,
    PlainSource, InputSource, SpacedCallSource, TwiceSource }
SomeSources == {NoSource, PlainSource, InputSource}

\* annotations the parameter lists of the conversion runs draw from: every
\* key of type_map and one of each other kind
ConvertAnnotations ==
  {Empty} \cup TypeMapClasses
     \cup {Tuple, Bytes, ListInt, ListLiteral, EqAll, HashInt, SubKeyErrHash}

\* annotations the parameter lists of the compatibility runs draw from
CheckAnnotations ==
  {Empty, IntClass, Tuple, Datetime, Bytes, ListInt, ListLiteral, EqAll, HashInt}

\* return annotations combined with every parameter list and source
CheckReturns == {Empty, StrClass, Datetime, ListInt, ListLiteral, EqAll}

\* parameter annotations and defaults combined with return annotations
DefaultAnnotations == {IntClass, EqAllNoHash}
DefaultReturns == {Empty, StrClass, Bytes, Datetime, NoneLiteral, NeFalse}

\* annotations on which a test of either function raises, next to one on
\* which none does
RaisingAnnotations == {IntClass, ListLiteral, Array, ArrayH, NA, BadClass}

\* f is a function made by def with one of the docstrings, a parameter list
\* of at most MaxParams parameters over the annotations and defaults, one
\* of the return annotations and one of the sources
IsFunctionOver(f, docs, annots, defaults, returns, sources) ==
  \E n \in 0..MaxParams :
     \E ps \in ParamLists(n, annots, defaults) :
        \E doc \in docs, ret \in returns, src \in sources :
           f = Function(doc, Named(ps), ret, src)

\* the callables the conversion runs start from
SignatureFunctions ==
  IsFunctionOver(func, {NoDoc}, ConvertAnnotations, {Empty, Default("value", No)},
                 {Empty}, {PlainSource})
DefaultFunctions ==
  IsFunctionOver(func, {NoDoc}, {IntClass, ListLiteral, HashIntNoTruth}, Defaults,
                 {Empty}, {PlainSource})
DocumentedFunctions ==
  IsFunctionOver(func, Docs, {Empty, IntClass}, {Empty}, {Empty}, {PlainSource})
\* one parameter with any annotation and default
OneParameterFunctions ==
  \E an \in Annotations \cup AnyObjects, d \in Defaults :
     func = Function(NoDoc, <<Param(1, an, d, "NORMAL")>>, Empty, PlainSource)

\* the callables the compatibility runs start from
AnnotatedFunctions ==
  IsFunctionOver(func, {NoDoc}, CheckAnnotations, {Empty}, CheckReturns, Sources)
DefaultedFunctions ==
  IsFunctionOver(func, {NoDoc}, DefaultAnnotations, Defaults, DefaultReturns, SomeSources)
RaisingFunctions ==
  IsFunctionOver(func, {NoDoc}, RaisingAnnotations, {Empty},
                 {Empty} \cup RaisingAnnotations, SomeSources)
DocumentedChecks ==
  IsFunctionOver(func, Docs, {Empty, IntClass}, {Empty},
                 {Empty, StrClass, ListLiteral}, SomeSources)
\* one parameter with any annotation
AnyParameterFunctions ==
  \E an \in Annotations \cup AnyObjects, ret \in {Empty, StrClass, ListInt},
     src \in SomeSources :
     func = Function(NoDoc, <<Param(1, an, Empty, "NORMAL")>>, ret, src)
\* any return annotation
AnyReturnFunctions ==
  \E ps \in {<<>>, <<Param(1, IntClass, Empty, "NORMAL")>>},
     ret \in Annotations \cup AnyObjects, src \in Sources :
     func = Function(NoDoc, ps, ret, src)

\* the callables both start from: no __name__, no signature, not callable
NamelessCallables ==
  \E n \in 0..MaxParams :
     \E ps \in ParamLists(n, {IntClass}, {Empty}) : func = Nameless(Named(ps), Empty)
OtherObjects ==
  func \in {Opaque, OpaqueUnicodeError, OpaqueTypeError, OpaqueUnprintable,
            OpaqueInterrupted, OpaqueNameless, OpaqueBadName, NotCallable}

(***************************************************************************)
(* State machine: one call of either function on a callable                *)
(***************************************************************************)
NoResult == [kind |-> "none"]

InitConvert ==
  /\ \/ SignatureFunctions
     \/ DefaultFunctions
     \/ DocumentedFunctions
     \/ OneParameterFunctions
     \/ NamelessCallables
     \/ OtherObjects
  /\ and_parse = FALSE
  /\ verbose = FALSE
  /\ pc = "ready"
  /\ result = NoResult

InitCheck ==
  /\ \/ AnnotatedFunctions
     \/ DefaultedFunctions
     \/ RaisingFunctions
     \/ DocumentedChecks
     \/ AnyParameterFunctions
     \/ AnyReturnFunctions
     \/ NamelessCallables
     \/ OtherObjects
  /\ and_parse = FALSE
  /\ verbose = FALSE
  /\ pc = "ready"
  /\ result = NoResult

\* schema = function_to_schema(func)
Convert ==
  /\ pc = "ready"
  /\ result' = function_to_schema(func)
  /\ pc' = "converted"
  /\ UNCHANGED <<func, and_parse, verbose>>

\* is_function_schema_compatible(func, and_parse=ap, verbose=vb)
CheckCompatibility ==
  \E ap \in BOOLEAN, vb \in BOOLEAN :
     /\ pc = "ready"
     /\ and_parse' = ap
     /\ verbose' = vb
     /\ result' = is_function_schema_compatible(func, ap, vb)
     /\ pc' = "checked"
     /\ UNCHANGED func

NextConvert == Convert
NextCheck == CheckCompatibility

Init == InitConvert
Next == NextConvert

Spec == Init /\ [][Next]_vars
SpecConvert == InitConvert /\ [][NextConvert]_vars
SpecCheck == InitCheck /\ [][NextCheck]_vars

(***************************************************************************)
(* Properties                                                              *)
(***************************************************************************)
Converted == pc = "converted" /\ result.kind = "return"
Properties == result.schema.function.parameters.properties
Required == result.schema.function.parameters.required

\* position of a name in a sequence of names (0 when absent)
IndexOf(names, n) ==
  IF \E i \in 1..Len(names) : names[i] = n
  THEN CHOOSE i \in 1..Len(names) : names[i] = n
  ELSE 0

\* C1: whenever function_to_schema returns a schema, the keys of `properties`
\* are exactly the parameter names, each once and in signature order, and
\* `required` lists exactly the parameters without a default, each once and in
\* signature order (variadic parameters included like any other).
C1_PropertiesAndRequired ==
  Converted =>
    /\ Len(Properties) = Len(func.params)
    /\ \A i \in 1..Len(func.params) : Properties[i].name = func.params[i].name
    /\ \A i \in 1..Len(func.params) :
         (\E j \in 1..Len(Required) : Required[j] = func.params[i].name)
           <=> func.params[i].default = Empty
    /\ \A j \in 1..Len(Required) :
         \E i \in 1..Len(func.params) : func.params[i].name = Required[j]
    /\ \A j, k \in 1..Len(Required) :
         j < k => /\ Required[j] # Required[k]
                  /\ IndexOf([i \in 1..Len(func.params) |-> func.params[i].name], Required[j])
                       < IndexOf([i \in 1..Len(func.params) |-> func.params[i].name], Required[k])

\* the closed mapping as the specification states it
StatedSchemaType(annotation) ==
  CASE annotation = MappedClass("str")      -> "string"
    [] annotation = MappedClass("int")      -> "integer"
    [] annotation = MappedClass("float")    -> "number"
    [] annotation = MappedClass("bool")     -> "boolean"
    [] annotation = MappedClass("list")     -> "array"
    [] annotation = MappedClass("dict")     -> "object"
    [] annotation = MappedClass("NoneType") -> "null"
    [] OTHER                                -> "string"

Introspectable == func.callable /\ func.signature_error = NoException

\* C2: function_to_schema raises only when the signature cannot be
\* introspected; otherwise every parameter gets the mapped schema type when its
\* annotation is a key of the mapping and "string" when it is absent,
\* reject-listed or otherwise unmapped.
C2_NeverFailsOnAnnotation ==
  pc = "converted" =>
    /\ result.kind = "raise" <=> ~Introspectable
    /\ result.kind = "return" =>
         \A i \in 1..Len(func.params) :
            /\ Properties[i].name = func.params[i].name
            /\ Properties[i].schema.type = StatedSchemaType(func.params[i].annotation)

Checked == pc = "checked"
Returned == Checked /\ result.kind # "raise"

\* the reasons of a joined text, separators removed
ReasonsIn(text) == SelectSeq(text, LAMBDA t : t # Separator)

ReportedIncompatible == result.kind \in {"bool", "bool_str"} /\ ~result.value
ReportedCompatible == result.kind \in {"bool", "bool_str", "bool_dict"} /\ result.value

NamesParam(text, name) == \E j \in 1..Len(text) : text[j].param = name
Count(text, msg) == Cardinality({j \in 1..Len(text) : text[j] = msg})
IsVariadic(param) == param.kind \in {"VAR_POSITIONAL", "VAR_KEYWORD"}
HasVariadic == \E i \in 1..Len(func.params) : IsVariadic(func.params[i])

\* tuple, set, complex, datetime or a subclass of one of them
IsRejectListed(annotation) == annotation.is_type = Yes /\ annotation.rejected = Yes

\* C3: whenever a report (a tuple) is returned, whatever the flags, it is
\* positive if and only if it carries no reason.
C3_CompatibleIffNoReasons ==
  (Checked /\ result.kind \in {"bool_str", "bool_dict"}) =>
     (result.value <=> ReasonsIn(result.text) = <<>>)

\* the conversion-failure exit: nothing disqualifies the function, its
\* conversion raises, and the report is negative with the wrapping reason
C3_Witness ==
  /\ Checked /\ verbose /\ and_parse
  /\ Len(func.params) = 2
  /\ result.kind = "bool_str"
  /\ ~result.value
  /\ ReasonsIn(result.text) = <<ConvertFailedMsg(ValueError)>>

\* C4: a function with a parameter annotated with a reject-listed type is
\* always reported incompatible, and the verbose report has a reason naming
\* that parameter.
C4_RejectListedAlwaysIncompatible ==
  Checked =>
    \A i \in 1..Len(func.params) :
       IsRejectListed(func.params[i].annotation) =>
          /\ ReportedIncompatible
          /\ verbose => NamesParam(result.text, func.params[i].name)

\* C5: a function with a *args or **kwargs parameter is always reported
\* incompatible, and its verbose report has exactly one variadic reason.
C5_VariadicAlwaysIncompatible ==
  (Checked /\ HasVariadic) =>
     /\ ReportedIncompatible
     /\ verbose => Count(result.text, VariadicMsg) = 1

\* C6 as stated: a value returned has the stated shape of its flag
\* combination: verbose+and_parse gives the report (boolean plus reasons)
\* together with the schema when the function is compatible and the report
\* when it is not, verbose alone the report, and_parse alone the schema or
\* False, neither a plain boolean.
C6_StatedShapes ==
  Returned =>
    /\ (verbose /\ and_parse) =>
          IF result.value THEN result.kind = "bool_str_dict"
                          ELSE result.kind = "bool_str"
    /\ (verbose /\ ~and_parse) => result.kind = "bool_str"
    /\ (~verbose /\ and_parse) =>
          \/ result.kind = "dict"
          \/ result.kind = "bool" /\ ~result.value
    /\ (~verbose /\ ~and_parse) => result.kind = "bool"

\* steps 1 to 6 leave the list of disqualifiers empty
NothingDisqualifies ==
  /\ Introspectable
  /\ Disqualifiers(func) = Appends(<<>>)

\* the conversion of func raises
ConversionFails == function_to_schema(func).kind = "raise"

\* C6 (amended): the value returned has the shape of its flag combination:
\* and_parse on a function nothing disqualifies gives the pair (True, schema)
\* with or without verbose, or, when the conversion fails, False without
\* verbose and the pair of False and the wrapping reason with it; in every
\* other case verbose gives the pair (bool, reasons) and non-verbose the
\* plain boolean.
C6_ActualShapes ==
  Returned =>
    /\ (and_parse /\ NothingDisqualifies /\ ~ConversionFails) =>
          /\ result.kind = "bool_dict"
          /\ result.value
          /\ result.schema = function_to_schema(func).schema
          /\ Len(result.schema.function.parameters.properties) = Len(func.params)
    /\ (and_parse /\ NothingDisqualifies /\ ConversionFails) =>
          /\ ~result.value
          /\ result.schema = NoSchema
          /\ IF verbose
             THEN /\ result.kind = "bool_str"
                  /\ result.text = <<ConvertFailedMsg(function_to_schema(func).error)>>
             ELSE result.kind = "bool"
    /\ (verbose /\ ~(and_parse /\ NothingDisqualifies)) =>
          /\ result.kind = "bool_str"
          /\ result.value = NothingDisqualifies
          /\ result.schema = NoSchema
    /\ (~verbose /\ ~(and_parse /\ NothingDisqualifies)) =>
          /\ result.kind = "bool"
          /\ result.value = NothingDisqualifies

\* and_parse alone on a compatible function: a pair, not a bare schema
C6_Witness ==
  /\ Checked /\ and_parse /\ ~verbose
  /\ Len(func.params) = 2
  /\ result.kind = "bool_dict"
  /\ result.value

\* C7: for a callable with an introspectable signature the call returns a
\* value and never raises.
C7_NeverRaises ==
  (Checked /\ Introspectable) => result.kind # "raise"

\* every schema function_to_schema returns for func has "string" for parameter i
StringInEverySchema(i) ==
  LET converted == function_to_schema(func)
  IN converted.kind = "return" =>
       converted.schema.function.parameters.properties[i].schema.type = "string"

\* func with parameter i annotated int
WithInt(i) == [func EXCEPT !.params[i].annotation = IntClass]

\* the outcome of the same call on func with parameter i annotated int
OutcomeWithInt(i) == is_function_schema_compatible(WithInt(i), and_parse, verbose)

\* outside the closed mapping: present, and not found under a key by the
\* lookup of the mapping
OutsideMapping(annotation) ==
  annotation # Empty /\ annotation.lookup \notin { Gives(key) : key \in TypeMapKeys }

\* outside the closed mapping, the lookup completing without a key found
LookedUpInVain(annotation) ==
  annotation # Empty /\ annotation.lookup = Absent

\* a class outside the mapping that is no subclass of a reject-listed type:
\* it does not compare equal to inspect._empty and its lookup completes
UnlistedClass(annotation) ==
  /\ LookedUpInVain(annotation)
  /\ annotation.is_type = Yes
  /\ annotation.rejected = No
  /\ annotation.eq_empty = No

ParamTraitApplies(param) ==
  \/ param.annotation = Empty
  \/ IsRejectListed(param.annotation)
  \/ param.annotation.is_type # Yes
ReturnTraitApplies ==
  \/ IsRejectListed(func.return_annotation)
  \/ func.return_annotation.is_type # Yes
InteractiveTraitApplies ==
  func.source.error = NoException /\ Contains(func.source.text, InputCall)
NoTraitApplies ==
  /\ Introspectable
  /\ \A i \in 1..Len(func.params) : ~ParamTraitApplies(func.params[i])
  /\ ~HasVariadic
  /\ ~InteractiveTraitApplies
  /\ ~ReturnTraitApplies

\* where a reason belongs in the fixed order of the checks
Rank(reason) ==
  IF reason.param # "" THEN 1
  ELSE IF reason = VariadicMsg THEN 2
  ELSE IF reason = InputCallMsg THEN 3
  ELSE 4

ParamIndex(name) ==
  IF \E i \in 1..Len(func.params) : func.params[i].name = name
  THEN CHOOSE i \in 1..Len(func.params) : func.params[i].name = name
  ELSE 0

\* the report of the conversion-failure exit of a function without any trait
IsConversionFailure ==
  /\ and_parse
  /\ NoTraitApplies
  /\ Len(result.text) = 1
  /\ result.text[1].trait = ConvertFailedMsg(NoException).trait

\* C9: the verbose report of an introspectable callable lists one reason per
\* applicable trait and nothing else: per-parameter reasons in parameter
\* order (at most one each), then the variadic, the interactive-call and the
\* return-type reason, joined by separators; the not-callable and
\* no-signature exits carry a single reason.
C9_AllReasonsInOrder ==
  (Checked /\ result.kind = "bool_str") =>
    LET R == ReasonsIn(result.text)
    IN IF Introspectable
       THEN \/ IsConversionFailure
            \/ /\ \A i \in 1..Len(func.params) :
                    Cardinality({j \in 1..Len(R) : R[j].param = func.params[i].name})
                      = IF ParamTraitApplies(func.params[i]) THEN 1 ELSE 0
               /\ Count(R, VariadicMsg) = IF HasVariadic THEN 1 ELSE 0
               /\ Count(R, InputCallMsg) = IF InteractiveTraitApplies THEN 1 ELSE 0
               /\ Count(R, ReturnTypeMsg(func.return_annotation))
                    = IF ReturnTraitApplies THEN 1 ELSE 0
               /\ \A j \in 1..Len(R) :
                    \/ ParamIndex(R[j].param) # 0
                    \/ R[j] \in {VariadicMsg, InputCallMsg, ReturnTypeMsg(func.return_annotation)}
               /\ \A j, k \in 1..Len(R) :
                    j < k => /\ Rank(R[j]) <= Rank(R[k])
                             /\ (Rank(R[j]) = 1 /\ Rank(R[k]) = 1) =>
                                   ParamIndex(R[j].param) < ParamIndex(R[k].param)
               /\ Len(result.text) = IF R = <<>> THEN 0 ELSE 2 * Len(R) - 1
               /\ \A j \in 1..Len(result.text) :
                    (result.text[j] = Separator) <=> (j % 2 = 0)
       ELSE /\ ~result.value
            /\ IF func.callable
               THEN result.text = <<NoSignatureMsg(func)>>
               ELSE result.text = <<NotCallableMsg>>

ReturnReasons(text) ==
  {j \in 1..Len(text) : text[j].trait = ReturnTypeMsg(Empty).trait}

\* C10: the return-type check adds exactly one reason, naming the return
\* annotation, when that annotation is reject-listed or not a class, and none
\* when it is absent or a key of the mapping.
C10_ReturnTypeCheck ==
  (Returned /\ Introspectable) =>
    /\ ReturnTraitApplies =>
         /\ ~result.value
         /\ result.kind = "bool_str" =>
              /\ Cardinality(ReturnReasons(result.text)) = 1
              /\ \A j \in ReturnReasons(result.text) :
                    result.text[j].annotation = func.return_annotation.name
    /\ func.return_annotation \in {Empty} \cup TypeMapClasses =>
         /\ ReturnReasons(result.text) = {}
         /\ ~and_parse =>
              result.value =
                 (/\ \A i \in 1..Len(func.params) : ~ParamTraitApplies(func.params[i])
                  /\ ~HasVariadic
                  /\ ~InteractiveTraitApplies)

\* the characters i,n,p,u,t,( stand next to each other somewhere in the text
InputTextOccurs(text) ==
  \E i \in 1..(Len(text) - 5) :
     /\ text[i] = "i" /\ text[i + 1] = "n" /\ text[i + 2] = "p"
     /\ text[i + 3] = "u" /\ text[i + 4] = "t" /\ text[i + 5] = "("

\* C11: a function whose retrieved source text contains "input(" is reported
\* incompatible under every flag combination, with exactly one interactivity
\* reason in the verbose report however often the text occurs and whatever
\* else is wrong; a function whose text has no such occurrence never gets that
\* reason.
C11_InteractiveFlagged ==
  (Checked /\ Introspectable /\ func.source.error = NoException) =>
    IF InputTextOccurs(func.source.text)
    THEN /\ ReportedIncompatible
         /\ verbose => Count(result.text, InputCallMsg) = 1
    ELSE Count(result.text, InputCallMsg) = 0

====
